---- MODULE Spec2Model ----
(***************************************************************************)
(* Model of the s3region package (src/s3region.go): the bucket-name        *)
(* validation, the derivation of a bucket name from the supported          *)
(* identifier forms, and the single HEAD request with its status/header    *)
(* policy.                                                                 *)
(*                                                                         *)
(* Go strings are TLA+ strings; a byte of a string is a string of length   *)
(* one.  Indices are 0-based where they model Go indices.                  *)
(* A Go error is the sequence of the messages along its Unwrap chain,      *)
(* outermost first; the nil error is the empty sequence.                   *)
(***************************************************************************)
EXTENDS Integers, Sequences, FiniteSets, TLC

VARIABLES
    pc,          \* position of the call: "idle", "inDo", "returned", "panicked",
                 \* or "name"/"checked"
    entry,       \* the entry point that was called
    input,       \* the string argument of the entry point
    ctx,         \* the context argument: "ctx" or "nil"
    opts,        \* the opts ...Option argument: the clients given to WithHTTPClient
    bucketName,  \* the bucketName argument of GetBucketRegionByName
    valid,       \* the result of isValidBucketName(bucketName)
    client,      \* cfg.httpClient
    req,         \* the request handed to cfg.httpClient.Do, or NoRequest
    doCalls,     \* how often Do was invoked during the call
    resp,        \* what Do returned: [resp, err], or NoReturn
    bodyClosed,  \* how often resp.Body.Close ran
    region,      \* the returned region
    err,         \* the returned error
    ctxDone,     \* ctx.Err() of the caller's context: "" while it is live
    other        \* the frame of a second caller's call, as frame is of this one

\* the variables of one call
frame == <<pc, entry, input, ctx, opts, bucketName, valid, client, req,
           doCalls, resp, bodyClosed, region, err, ctxDone>>

vars == <<frame, other>>

----------------------------------------------------------------------------
(* Bytes and the strings package *)

Lower == {"a", "b", "c", "d", "e", "f", "g", "h", "i", "j", "k", "l", "m",
          "n", "o", "p", "q", "r", "s", "t", "u", "v", "w", "x", "y", "z"}

Digit == {"0", "1", "2", "3", "4", "5", "6", "7", "8", "9"}

\* unicode.IsSpace on the bytes the model uses
Space == {" ", "\t", "\n", "\r"}

\* name[i], 0-based
At(s, i) == SubSeq(s, i + 1, i + 1)

\* s[from:to], 0-based, to exclusive
Slice(s, from, to) == SubSeq(s, from + 1, to)

HasPrefix(s, prefix) ==
    /\ Len(s) >= Len(prefix)
    /\ Slice(s, 0, Len(prefix)) = prefix

TrimPrefix(s, prefix) ==
    IF HasPrefix(s, prefix) THEN Slice(s, Len(prefix), Len(s)) ELSE s

RECURSIVE IndexFrom(_, _, _)
\* the first occurrence of substr in s at index i or later, or -1
IndexFrom(s, substr, i) ==
    IF i + Len(substr) > Len(s) THEN -1
    ELSE IF Slice(s, i, i + Len(substr)) = substr THEN i
    ELSE IndexFrom(s, substr, i + 1)

\* strings.Index: the 0-based index of the first occurrence of substr, or -1
Index(s, substr) == IndexFrom(s, substr, 0)

Contains(s, substr) == Index(s, substr) # -1

RECURSIVE Split(_, _)
Split(s, sep) ==
    LET i == Index(s, sep)
    IN  IF i = -1 THEN <<s>>
        ELSE <<Slice(s, 0, i)>> \o Split(Slice(s, i + Len(sep), Len(s)), sep)

RECURSIVE TrimLeft(_)
TrimLeft(s) ==
    IF Len(s) > 0 /\ At(s, 0) \in Space THEN TrimLeft(Slice(s, 1, Len(s))) ELSE s

RECURSIVE TrimRight(_)
TrimRight(s) ==
    IF Len(s) > 0 /\ At(s, Len(s) - 1) \in Space
    THEN TrimRight(Slice(s, 0, Len(s) - 1)) ELSE s

TrimSpace(s) == TrimRight(TrimLeft(s))

----------------------------------------------------------------------------
(* isValidBucketName *)

MinBucketNameLen == 3
MaxBucketNameLen == 63
IPDotCount == 3
IPPartCount == 4

LengthOK(name) ==
    ~(Len(name) < MinBucketNameLen \/ Len(name) > MaxBucketNameLen)

\* first and last must be a lowercase letter or a number
EndsOK(name) ==
    LET first == At(name, 0)
        last  == At(name, Len(name) - 1)
    IN  /\ first \in Lower \cup Digit
        /\ last \in Lower \cup Digit

\* The loop over the bytes, from index i on with the loop's locals prevDot and
\* dotCount: ok is FALSE when the loop returns false, and dotCount is the
\* count the loop ends with.
RECURSIVE ScanFrom(_, _, _, _)
ScanFrom(name, i, prevDot, dotCount) ==
    IF ~(i < Len(name)) THEN [ok |-> TRUE, dotCount |-> dotCount]
    ELSE LET c == At(name, i)
         IN  IF ~(c \in Lower \/ c \in Digit \/ c = "." \/ c = "-")
             THEN [ok |-> FALSE, dotCount |-> dotCount]
             ELSE IF c = "."
                  THEN IF prevDot
                       THEN [ok |-> FALSE, dotCount |-> dotCount + 1]
                       ELSE ScanFrom(name, i + 1, TRUE, dotCount + 1)
                  ELSE ScanFrom(name, i + 1, FALSE, dotCount)

\* allNumbers after the loop over parts
AllNumbers(parts) ==
    \A p \in 1..Len(parts) :
        /\ Len(parts[p]) # 0
        /\ \A j \in 0..(Len(parts[p]) - 1) : At(parts[p], j) \in Digit

\* IsIPFormatted with the loop over parts leaving after the first part
IsIPFormattedFirstPart(name, dotCount) ==
    /\ dotCount = IPDotCount
    /\ LET parts == Split(name, ".")
       IN  /\ Len(parts) = IPPartCount
           /\ AllNumbers(<<parts[1]>>)

\* the "formatted as an IP address" test
IsIPFormatted(name, dotCount) ==
    /\ dotCount = IPDotCount
    /\ LET parts == Split(name, ".")
       IN  /\ Len(parts) = IPPartCount
           /\ AllNumbers(parts)

isValidBucketName(name) ==
    IF ~LengthOK(name) THEN FALSE
    ELSE IF ~EndsOK(name) THEN FALSE
    ELSE LET scan == ScanFrom(name, 0, FALSE, 0)
         IN  IF ~scan.ok THEN FALSE
             ELSE IF IsIPFormatted(name, scan.dotCount) THEN FALSE
             ELSE TRUE

----------------------------------------------------------------------------
(* Errors *)

NilError == <<>>

ErrRegionHeaderNotFound == <<"x-amz-bucket-region header not found in response">>
ErrBucketNotFound == <<"aws s3 bucket not found">>
ErrInvalidBucketName == <<"invalid S3 bucket name">>

\* fmt.Errorf with one %w verb: a new error with message msg that unwraps to e
ErrorfW(msg, e) == <<msg>> \o e

\* newError(op, bucketName, input, err) of errors.go: the *Error whose message
\* begins fmt.Sprintf("%s(%q)", e.Op, e.Input) and whose Unwrap is err; the
\* strings of the model need no escape under %q.  BucketName is a field that
\* Error() does not print.
newError(op, name, in, e) == <<op \o "(\"" \o in \o "\")">> \o e

\* errors.Is: target is err or an error on err's Unwrap chain
ErrorsIs(e, target) ==
    /\ target # NilError
    /\ \E i \in 1..Len(e) : SubSeq(e, i, Len(e)) = target

----------------------------------------------------------------------------
(* The bucket name each entry point passes to GetBucketRegionByName *)

ARNPrefix == "arn:aws:s3:::"
S3URIPrefix == "s3://"
HTTPSPrefix == "https://"
HTTPPrefix == "http://"

RECURSIVE LastIndex(_, _)
\* strings.LastIndex
LastIndex(s, substr) ==
    IF Len(s) < Len(substr) THEN -1
    ELSE IF Slice(s, Len(s) - Len(substr), Len(s)) = substr
         THEN Len(s) - Len(substr)
         ELSE LastIndex(Slice(s, 0, Len(s) - 1), substr)

\* BeforeSlash with strings.LastIndex for strings.Index
BeforeLastSlash(s) ==
    LET idx == LastIndex(s, "/")
    IN  IF idx # -1 THEN Slice(s, 0, idx) ELSE s

\* "remove any path after bucket name": s up to the first "/"
BeforeSlash(s) ==
    LET idx == Index(s, "/")
    IN  IF idx # -1 THEN Slice(s, 0, idx) ELSE s

GetBucketRegionFromARN(arn) == BeforeSlash(TrimPrefix(arn, ARNPrefix))

GetBucketRegionFromS3URI(uri) == BeforeSlash(TrimPrefix(uri, S3URIPrefix))

RECURSIVE TrimLeadingSlashes(_)
\* strings.TrimLeft(s, "/")
TrimLeadingSlashes(s) ==
    IF HasPrefix(s, "/") THEN TrimLeadingSlashes(Slice(s, 1, Len(s))) ELSE s

\* GetBucketRegionFromHTTPURL with the empty segments at the head of the path
\* skipped
GetBucketRegionFromHTTPURLSkipEmpty(rawurl) ==
    LET url  == TrimPrefix(TrimPrefix(rawurl, HTTPSPrefix), HTTPPrefix)
        idx  == Index(url, "/")
        host == IF idx # -1 THEN Slice(url, 0, idx) ELSE url
        path == IF idx # -1
                THEN TrimLeadingSlashes(Slice(url, idx + 1, Len(url)))
                ELSE ""
    IN  IF (Contains(host, ".s3.") \/ Contains(host, ".s3-"))
           /\ Index(host, ".s3") # -1
        THEN Slice(host, 0, Index(host, ".s3"))
        ELSE IF path # ""
             THEN BeforeSlash(path)
             ELSE host

\* GetBucketRegionFromHTTPURL that derives no name from a host alone
GetBucketRegionFromHTTPURLNoFallback(rawurl) ==
    LET url  == TrimPrefix(TrimPrefix(rawurl, HTTPSPrefix), HTTPPrefix)
        idx  == Index(url, "/")
        host == IF idx # -1 THEN Slice(url, 0, idx) ELSE url
        path == IF idx # -1 THEN Slice(url, idx + 1, Len(url)) ELSE ""
    IN  IF (Contains(host, ".s3.") \/ Contains(host, ".s3-"))
           /\ Index(host, ".s3") # -1
        THEN Slice(host, 0, Index(host, ".s3"))
        ELSE IF path # ""
             THEN BeforeSlash(path)
             ELSE ""

\* GetBucketRegionFromHTTPURL with the host cut where ".s3." or ".s3-" begins
GetBucketRegionFromHTTPURLAtMarker(rawurl) ==
    LET url  == TrimPrefix(TrimPrefix(rawurl, HTTPSPrefix), HTTPPrefix)
        idx  == Index(url, "/")
        host == IF idx # -1 THEN Slice(url, 0, idx) ELSE url
        path == IF idx # -1 THEN Slice(url, idx + 1, Len(url)) ELSE ""
        dot  == Index(host, ".s3.")
        dash == Index(host, ".s3-")
    IN  IF dot # -1 \/ dash # -1
        THEN Slice(host, 0, IF dot = -1 THEN dash
                            ELSE IF dash = -1 THEN dot
                            ELSE IF dot < dash THEN dot ELSE dash)
        ELSE IF path # ""
             THEN BeforeSlash(path)
             ELSE host

GetBucketRegionFromHTTPURL(rawurl) ==
    LET url  == TrimPrefix(TrimPrefix(rawurl, HTTPSPrefix), HTTPPrefix)
        idx  == Index(url, "/")
        host == IF idx # -1 THEN Slice(url, 0, idx) ELSE url
        path == IF idx # -1 THEN Slice(url, idx + 1, Len(url)) ELSE ""
    IN  IF (Contains(host, ".s3.") \/ Contains(host, ".s3-"))
           /\ Index(host, ".s3") # -1
        THEN Slice(host, 0, Index(host, ".s3"))
        ELSE IF path # ""
             THEN BeforeSlash(path)
             ELSE host

\* GetBucketRegion with the scheme matched in upper case as well
GetBucketRegionAnyCase(in) ==
    IF HasPrefix(in, ARNPrefix) THEN GetBucketRegionFromARN(in)
    ELSE IF HasPrefix(in, S3URIPrefix) \/ HasPrefix(in, "S3://")
         THEN BeforeSlash(Slice(in, Len(S3URIPrefix), Len(in)))
    ELSE IF HasPrefix(in, HTTPPrefix) \/ HasPrefix(in, HTTPSPrefix)
         THEN GetBucketRegionFromHTTPURL(in)
    ELSE IF HasPrefix(in, "HTTPS://")
         THEN GetBucketRegionFromHTTPURL(Slice(in, Len(HTTPSPrefix), Len(in)))
    ELSE BeforeSlash(in)

GetBucketRegion(in) ==
    IF HasPrefix(in, ARNPrefix) THEN GetBucketRegionFromARN(in)
    ELSE IF HasPrefix(in, S3URIPrefix) THEN GetBucketRegionFromS3URI(in)
    ELSE IF HasPrefix(in, HTTPPrefix) \/ HasPrefix(in, HTTPSPrefix)
         THEN GetBucketRegionFromHTTPURL(in)
    ELSE BeforeSlash(in)

EntryPoints == {"GetBucketRegion", "GetBucketRegionByName",
                "GetBucketRegionFromS3URI", "GetBucketRegionFromARN",
                "GetBucketRegionFromHTTPURL"}

PassedBucketName(e, in) ==
    CASE e = "GetBucketRegion" -> GetBucketRegion(in)
      [] e = "GetBucketRegionByName" -> in
      [] e = "GetBucketRegionFromS3URI" -> GetBucketRegionFromS3URI(in)
      [] e = "GetBucketRegionFromARN" -> GetBucketRegionFromARN(in)
      [] e = "GetBucketRegionFromHTTPURL" -> GetBucketRegionFromHTTPURL(in)

----------------------------------------------------------------------------
(* GetBucketRegionByName *)

StatusNotFound == 404

DefaultClient == "http.DefaultClient"

\* WithHTTPClient(nil)
NilClient == "nil"

NoRequest == [method |-> "", url |-> "", ctx |-> ""]
NoReturn == [returned |-> FALSE]

\* cfg when an option sets the client only where none was set by an option
ConfiguredClientFirst(os) == IF os = <<>> THEN DefaultClient ELSE os[1]

\* cfg after the options ran: each WithHTTPClient overwrites cfg.httpClient
ConfiguredClient(os) == IF os = <<>> THEN DefaultClient ELSE os[Len(os)]

\* the request URL with the input's scheme kept
RequestURLPlainHTTP(name) == "http://" \o name \o ".s3.amazonaws.com"

\* the request URL at the endpoint of the region the other caller's call found
RequestURLLastRegion(name) ==
    IF other.region # ""
    THEN "https://" \o name \o ".s3." \o other.region \o ".amazonaws.com"
    ELSE "https://" \o name \o ".s3.amazonaws.com"

\* fmt.Sprintf("https://%s.s3.amazonaws.com", bucketName)
RequestURL(name) == "https://" \o name \o ".s3.amazonaws.com"

\* http.NewRequest(http.MethodHead, url, nil): the request carries
\* context.Background() and not the caller's context
NewRequestBackground(c, method, url) ==
    IF c = "nil"
    THEN [req |-> NoRequest, err |-> <<"net/http: nil Context">>]
    ELSE [req |-> [method |-> method, url |-> url, ctx |-> "background"],
          err |-> NilError]

\* http.NewRequestWithContext(ctx, http.MethodHead, url, nil): fails on a nil
\* context; the URL of a valid bucket name always parses
NewRequestWithContext(c, method, url) ==
    IF c = "nil"
    THEN [req |-> NoRequest, err |-> <<"net/http: nil Context">>]
    ELSE [req |-> [method |-> method, url |-> url, ctx |-> c], err |-> NilError]

\* http.Header.Get: the first value of the key, "" when there is none
HeaderGet(values) == IF values = <<>> THEN "" ELSE values[1]

\* fmt.Errorf("%w: %s", ErrInvalidBucketName, bucketName) with %v for %w
InvalidNameErrorUnwrapped(name) == <<"invalid S3 bucket name: " \o name>>

\* fmt.Errorf("%w: %s", ErrInvalidBucketName, bucketName)
InvalidNameError(name) ==
    ErrorfW("invalid S3 bucket name: " \o name, ErrInvalidBucketName)

\* the failure of http.NewRequestWithContext reported as one of Do
RequestErrorAsTransport(e) == ErrorfW("failed to perform HEAD request", e)

\* fmt.Errorf("failed to create request: %w", err)
RequestError(e) == ErrorfW("failed to create request", e)

\* fmt.Errorf("failed to perform HEAD request: %w", err) with %v for %w
TransportFailureUnwrapped(e) == <<"failed to perform HEAD request">>

\* fmt.Errorf("failed to perform HEAD request: %w", err)
TransportFailure(e) == ErrorfW("failed to perform HEAD request", e)

\* From the start of the function to the call of cfg.httpClient.Do, which
\* panics (nil pointer dereference) when cfg.httpClient is the nil interface
GetBucketRegionByName(c, name, os) ==
    LET ok == isValidBucketName(name)
        nr == NewRequestWithContext(c, "HEAD", RequestURL(name))
    IN
    /\ bucketName' = name
    /\ client' = ConfiguredClient(os)
    /\ valid' = ok
    /\ resp' = NoReturn
    /\ bodyClosed' = 0
    /\ ctxDone' = ""
    /\ UNCHANGED other
    /\ IF ~ok
       THEN /\ pc' = "returned"
            /\ region' = ""
            /\ err' = InvalidNameError(name)
            /\ req' = NoRequest
            /\ doCalls' = 0
       ELSE IF nr.err # NilError
       THEN /\ pc' = "returned"
            /\ region' = ""
            /\ err' = RequestError(nr.err)
            /\ req' = NoRequest
            /\ doCalls' = 0
       ELSE IF ConfiguredClient(os) = NilClient
       THEN /\ pc' = "panicked"
            /\ region' = ""
            /\ err' = NilError
            /\ req' = nr.req
            /\ doCalls' = 0
       ELSE /\ pc' = "inDo"
            /\ region' = ""
            /\ err' = NilError
            /\ req' = nr.req
            /\ doCalls' = 1

\* A caller calls entry point e
Call(e, in, c, os) ==
    /\ pc = "idle"
    /\ entry' = e
    /\ input' = in
    /\ ctx' = c
    /\ opts' = os
    /\ GetBucketRegionByName(c, PassedBucketName(e, in), os)

\* ResultOf with the header read before the status is looked at
ResultOfHeaderFirst(status, header) ==
    LET r == HeaderGet(header)
    IN  IF r # ""
        THEN [region |-> TrimSpace(r), err |-> NilError]
        ELSE IF status = StatusNotFound
             THEN [region |-> "", err |-> ErrBucketNotFound]
             ELSE [region |-> "", err |-> ErrRegionHeaderNotFound]

\* ResultOf with every status outside 2xx an error
ResultOfSuccessOnly(status, header) ==
    LET r == HeaderGet(header)
    IN  IF status = StatusNotFound \/ status >= 300
        THEN [region |-> "", err |-> ErrBucketNotFound]
        ELSE IF r = ""
             THEN [region |-> "", err |-> ErrRegionHeaderNotFound]
             ELSE [region |-> TrimSpace(r), err |-> NilError]

\* What the function returns for the response Do returned with a nil error
ResultOf(status, header) ==
    IF status = StatusNotFound
    THEN [region |-> "", err |-> ErrBucketNotFound]
    ELSE LET r == HeaderGet(header)
         IN  IF r = ""
             THEN [region |-> "", err |-> ErrRegionHeaderNotFound]
             ELSE [region |-> TrimSpace(r), err |-> NilError]

\* DoReturnsError with one more attempt after a failed request
DoReturnsErrorRetry(e) ==
    /\ pc = "inDo"
    /\ IF doCalls < 2
       THEN /\ doCalls' = doCalls + 1
            /\ UNCHANGED <<pc, resp, region, err>>
       ELSE /\ resp' = [returned |-> TRUE, isErr |-> TRUE, err |-> e]
            /\ region' = ""
            /\ err' = TransportFailure(e)
            /\ pc' = "returned"
            /\ UNCHANGED doCalls
    /\ UNCHANGED <<entry, input, ctx, opts, bucketName, valid, client, req,
                   bodyClosed, ctxDone, other>>

\* Do returns a non-nil error
DoReturnsError(e) ==
    /\ pc = "inDo"
    /\ resp' = [returned |-> TRUE, isErr |-> TRUE, err |-> e]
    /\ region' = ""
    /\ err' = TransportFailure(e)
    /\ pc' = "returned"
    /\ UNCHANGED <<entry, input, ctx, opts, bucketName, valid, client, req,
                   doCalls, bodyClosed, ctxDone, other>>

\* Do returns a response and a nil error; the deferred Body.Close runs on return.
\* The client keeps the contract of http.Client.Do, which the HTTPClient
\* interface is taken from: with a nil error the response and its Body are not
\* nil.  The header's keys are canonical, as http.Header.Get expects them.
DoReturnsResponse(status, header) ==
    /\ pc = "inDo"
    /\ resp' = [returned |-> TRUE, isErr |-> FALSE,
                status |-> status, header |-> header]
    /\ region' = ResultOf(status, header).region
    /\ err' = ResultOf(status, header).err
    /\ bodyClosed' = bodyClosed + 1
    /\ pc' = "returned"
    /\ UNCHANGED <<entry, input, ctx, opts, bucketName, valid, client, req,
                   doCalls, ctxDone, other>>

\* The caller takes the result; the call's frame is gone
Return ==
    /\ pc = "returned"
    /\ pc' = "idle"
    /\ entry' = ""
    /\ input' = ""
    /\ ctx' = ""
    /\ opts' = <<>>
    /\ bucketName' = ""
    /\ valid' = FALSE
    /\ client' = ""
    /\ req' = NoRequest
    /\ doCalls' = 0
    /\ resp' = NoReturn
    /\ bodyClosed' = 0
    /\ region' = ""
    /\ err' = NilError
    /\ ctxDone' = ""
    /\ UNCHANGED other

----------------------------------------------------------------------------
(* The callers' inputs and the transport's answers *)

MaxShortLen == 4
MaxScanLen == 4
MaxGroups == 5

RECURSIVE StringsOver(_, _)
\* every string over alphabet of length at most n
StringsOver(alphabet, n) ==
    IF n = 0 THEN {""}
    ELSE LET shorter == StringsOver(alphabet, n - 1)
         IN  shorter \cup {s \o c : s \in shorter, c \in alphabet}

RECURSIVE Repeat(_, _)
Repeat(s, n) == IF n = 0 THEN "" ELSE s \o Repeat(s, n - 1)

RECURSIVE DottedGroups(_, _)
\* n groups joined by "."
DottedGroups(groups, n) ==
    IF n = 1 THEN groups
    ELSE {d \o "." \o g : d \in DottedGroups(groups, n - 1), g \in groups}

\* Names of the examples, tests and documentation, and names around each rule
ExampleNames ==
    {"my-bucket", "ab", "a..b", "192.168.1.1", "my.s3.bucket", "abc.s3-data",
     "a.s3x", "s3.amazonaws.com", "My-Bucket", "my-bucket-", "sentinel-s2-l1c",
     Repeat("a", MaxBucketNameLen), Repeat("a", MaxBucketNameLen + 1)}

BucketNames == ExampleNames \cup StringsOver({"a", "."}, MaxShortLen)

PathSuffixes == {"", "/", "/path/to/object", "//x"}

Forms == {"plain", "s3uri", "arn", "https-virtual", "http-virtual",
          "virtual-region", "virtual-dash-region", "path-style",
          "path-style-region", "host-only", "upper-scheme", "upper-https",
          "stacked-scheme"}

Form(f, b) ==
    CASE f = "plain" -> b
      [] f = "s3uri" -> "s3://" \o b
      [] f = "arn" -> "arn:aws:s3:::" \o b
      [] f = "https-virtual" -> "https://" \o b \o ".s3.amazonaws.com"
      [] f = "http-virtual" -> "http://" \o b \o ".s3.amazonaws.com"
      [] f = "virtual-region" -> "https://" \o b \o ".s3.us-west-2.amazonaws.com"
      [] f = "virtual-dash-region" -> "https://" \o b \o ".s3-us-west-2.amazonaws.com"
      [] f = "path-style" -> "https://s3.amazonaws.com/" \o b
      [] f = "path-style-region" -> "https://s3.us-west-2.amazonaws.com/" \o b
      [] f = "host-only" -> "https://" \o b
      [] f = "upper-scheme" -> "S3://" \o b
      [] f = "upper-https" -> "HTTPS://" \o b \o ".s3.amazonaws.com"
      [] f = "stacked-scheme" -> "https://http://" \o b \o ".s3.amazonaws.com"

Inputs == {Form(f, b) \o p : f \in Forms, b \in BucketNames, p \in PathSuffixes}

\* (ctx, opts) of a call
CallConfigs == {<<"ctx", <<>>>>, <<"ctx", <<"clientA">>>>,
                <<"ctx", <<"clientA", "clientB">>>>, <<"nil", <<>>>>}

Statuses == {200, 403, 404, 500}

\* The values of the response's X-Amz-Bucket-Region header: none, or one or more
RegionHeaders == {<<>>, <<"">>, <<" \t">>, <<"us-east-1">>,
                  <<" us-west-2\r\n">>, <<"eu-west-1", "us-east-1">>}

\* The errors Do returns: from the network, from the context, and a stub's own
TransportErrors ==
    {<<"dial tcp: lookup: no such host">>,
     <<"Head: context deadline exceeded", "context deadline exceeded">>,
     <<"Head: context canceled", "context canceled">>,
     ErrBucketNotFound,
     ErrorfW("stub", ErrRegionHeaderNotFound)}

----------------------------------------------------------------------------
(* The calls of the package, one after the other *)

\* the frame of a caller that is in no call
IdleFrame ==
    [pc |-> "idle", entry |-> "", input |-> "", ctx |-> "", opts |-> <<>>,
     bucketName |-> "", valid |-> FALSE, client |-> "", req |-> NoRequest,
     doCalls |-> 0, resp |-> NoReturn, bodyClosed |-> 0, region |-> "",
     err |-> NilError, ctxDone |-> ""]

Init ==
    /\ pc = "idle"
    /\ entry = ""
    /\ input = ""
    /\ ctx = ""
    /\ opts = <<>>
    /\ bucketName = ""
    /\ valid = FALSE
    /\ client = ""
    /\ req = NoRequest
    /\ doCalls = 0
    /\ resp = NoReturn
    /\ bodyClosed = 0
    /\ region = ""
    /\ err = NilError
    /\ ctxDone = ""
    /\ other = IdleFrame

\* The quantifiers are inside the guards: the inputs are enumerated only in
\* the states where the step can happen
Next ==
    \/ /\ pc = "idle"
       /\ \E e \in EntryPoints, in \in Inputs, cfg \in CallConfigs :
              Call(e, in, cfg[1], cfg[2])
    \/ /\ pc = "inDo"
       /\ \E e \in TransportErrors : DoReturnsError(e)
    \/ /\ pc = "inDo"
       /\ \E status \in Statuses, header \in RegionHeaders :
              DoReturnsResponse(status, header)
    \/ Return

Spec == Init /\ [][Next]_vars

----------------------------------------------------------------------------
(* The call with a context that can fire while Do runs.  The client is one   *)
(* that honours the request's context, as http.Client does: once that        *)
(* context is done Do returns its error, and only then is Do bound to return *)
(* at all (the server may never answer).                                     *)

\* ctx.Err() once the context is done: context.Canceled, context.DeadlineExceeded
ContextErrors == {"context canceled", "context deadline exceeded"}

\* the context the request carries is done
RequestContextDone == req.ctx = ctx /\ ctxDone # ""

\* The caller cancels ctx, or its deadline passes, while Do runs
CtxFires(kind) ==
    /\ pc = "inDo"
    /\ ctxDone = ""
    /\ ctxDone' = kind
    /\ UNCHANGED <<pc, entry, input, ctx, opts, bucketName, valid, client, req,
                   doCalls, resp, bodyClosed, region, err, other>>

\* Do returns the error of the request's context, as *url.Error wraps it
DoReturnsContextError ==
    /\ pc = "inDo"
    /\ RequestContextDone
    /\ DoReturnsError(<<"Head \"" \o req.url \o "\": " \o ctxDone, ctxDone>>)

CtxInputs == {Form(f, b) : f \in Forms, b \in ExampleNames}

NextCtx ==
    \/ /\ pc = "idle"
       /\ \E e \in EntryPoints, in \in CtxInputs, cfg \in CallConfigs :
              Call(e, in, cfg[1], cfg[2])
    \/ /\ pc = "inDo"
       /\ \E kind \in ContextErrors : CtxFires(kind)
    \/ DoReturnsContextError
    \/ /\ pc = "inDo"
       /\ ~RequestContextDone
       /\ \E e \in TransportErrors : DoReturnsError(e)
    \/ /\ pc = "inDo"
       /\ ~RequestContextDone
       /\ \E status \in Statuses, header \in RegionHeaders :
              DoReturnsResponse(status, header)
    \/ Return

\* Do is bound to return once the request's context is done; nothing else is
\* bound to happen: the context need not fire and the server need not answer
SpecCtx == Init /\ [][NextCtx]_vars /\ WF_vars(DoReturnsContextError)

----------------------------------------------------------------------------
(* Two callers, each in a call of its own.  The function has no package-     *)
(* level variable that it writes and starts no goroutine: a call's variables *)
(* are its parameters and locals.  The steps of the model act on the call in *)
(* frame, and Switch makes the other caller's call the one in frame, so the  *)
(* two calls interleave at every step, and a finished call stays in view     *)
(* while the other caller makes the next ones.                               *)

Switch ==
    /\ other' = [pc |-> pc, entry |-> entry, input |-> input, ctx |-> ctx,
                 opts |-> opts, bucketName |-> bucketName, valid |-> valid,
                 client |-> client, req |-> req, doCalls |-> doCalls,
                 resp |-> resp, bodyClosed |-> bodyClosed, region |-> region,
                 err |-> err, ctxDone |-> ctxDone]
    /\ pc' = other.pc
    /\ entry' = other.entry
    /\ input' = other.input
    /\ ctx' = other.ctx
    /\ opts' = other.opts
    /\ bucketName' = other.bucketName
    /\ valid' = other.valid
    /\ client' = other.client
    /\ req' = other.req
    /\ doCalls' = other.doCalls
    /\ resp' = other.resp
    /\ bodyClosed' = other.bodyClosed
    /\ region' = other.region
    /\ err' = other.err
    /\ ctxDone' = other.ctxDone

PairInputs == {"my-bucket", "s3://my-bucket/key", "ab"}

PairConfigs == {<<"ctx", <<>>>>, <<"ctx", <<"clientA">>>>}

PairStatuses == {200, 404}

PairHeaders == {<<>>, <<"us-east-1">>}

PairErrors == {<<"dial tcp: lookup: no such host">>}

NextPair ==
    \/ /\ pc = "idle"
       /\ \E e \in EntryPoints, in \in PairInputs, cfg \in PairConfigs :
              Call(e, in, cfg[1], cfg[2])
    \/ /\ pc = "inDo"
       /\ \E e \in PairErrors : DoReturnsError(e)
    \/ /\ pc = "inDo"
       /\ \E status \in PairStatuses, header \in PairHeaders :
              DoReturnsResponse(status, header)
    \/ Return
    \/ Switch

SpecPair == Init /\ [][NextPair]_vars

----------------------------------------------------------------------------
(* The call with any value of the HTTPClient interface: the interface does   *)
(* not bind an implementation to the contract of http.Client.Do, and         *)
(* WithHTTPClient takes the nil interface as well.                           *)

\* Do returns (nil, nil): "defer resp.Body.Close()" dereferences the nil resp
DoReturnsNilNil ==
    /\ pc = "inDo"
    /\ resp' = [returned |-> TRUE, isErr |-> FALSE, isNil |-> TRUE]
    /\ pc' = "panicked"
    /\ UNCHANGED <<entry, input, ctx, opts, bucketName, valid, client, req,
                   doCalls, bodyClosed, region, err, ctxDone, other>>

\* Do returns a response whose Body is nil and a nil error:
\* "defer resp.Body.Close()" calls a method of the nil interface
DoReturnsResponseNoBody(status, header) ==
    /\ pc = "inDo"
    /\ resp' = [returned |-> TRUE, isErr |-> FALSE,
                status |-> status, header |-> header, noBody |-> TRUE]
    /\ pc' = "panicked"
    /\ UNCHANGED <<entry, input, ctx, opts, bucketName, valid, client, req,
                   doCalls, bodyClosed, region, err, ctxDone, other>>

\* Do returns a response together with a non-nil error: the function returns
\* at "if err != nil", before "defer resp.Body.Close()" is reached.  Whether
\* the client closed the body itself is the client's choice: http.Client has
\* closed it (a failed CheckRedirect), another implementation need not.
DoReturnsResponseAndError(status, e, closedByClient) ==
    /\ pc = "inDo"
    /\ resp' = [returned |-> TRUE, isErr |-> TRUE, err |-> e,
                status |-> status, header |-> <<>>]
    /\ region' = ""
    /\ err' = TransportFailure(e)
    /\ bodyClosed' = IF closedByClient THEN bodyClosed + 1 ELSE bodyClosed
    /\ pc' = "returned"
    /\ UNCHANGED <<entry, input, ctx, opts, bucketName, valid, client, req,
                   doCalls, ctxDone, other>>

AnyConfigs == CallConfigs \cup {<<"ctx", <<NilClient>>>>,
                                <<"ctx", <<"clientA", NilClient>>>>}

\* A panic that no caller recovers ends the process: no step follows it
NextAny ==
    \/ /\ pc = "idle"
       /\ \E e \in EntryPoints, in \in CtxInputs, cfg \in AnyConfigs :
              Call(e, in, cfg[1], cfg[2])
    \/ /\ pc = "inDo"
       /\ \E e \in TransportErrors : DoReturnsError(e)
    \/ /\ pc = "inDo"
       /\ \E status \in Statuses, header \in RegionHeaders :
              DoReturnsResponse(status, header)
    \/ DoReturnsNilNil
    \/ /\ pc = "inDo"
       /\ \E status \in Statuses, header \in RegionHeaders :
              DoReturnsResponseNoBody(status, header)
    \/ /\ pc = "inDo"
       /\ \E status \in Statuses, e \in TransportErrors, c \in BOOLEAN :
              DoReturnsResponseAndError(status, e, c)
    \/ Return

SpecAny == Init /\ [][NextAny]_vars

----------------------------------------------------------------------------
(* isValidBucketName alone, applied to names of every shape *)

NameInputs ==
    ExampleNames
    \cup StringsOver({"a", "1", ".", "-", "A", "/"}, MaxScanLen)
    \cup UNION {DottedGroups({"1", "20", "a", "1a", ""}, n) : n \in 3..MaxGroups}
    \cup {Repeat("a", n) : n \in (MaxBucketNameLen - 1)..(MaxBucketNameLen + 2)}
    \cup {Repeat("1.", 31) \o "1", Repeat("a", 60) \o ".1a"}

InitValid ==
    /\ pc = "name"
    /\ bucketName \in NameInputs
    /\ entry = ""
    /\ input = ""
    /\ ctx = ""
    /\ opts = <<>>
    /\ valid = FALSE
    /\ client = ""
    /\ req = NoRequest
    /\ doCalls = 0
    /\ resp = NoReturn
    /\ bodyClosed = 0
    /\ region = ""
    /\ err = NilError
    /\ ctxDone = ""
    /\ other = IdleFrame

CheckName ==
    /\ pc = "name"
    /\ valid' = isValidBucketName(bucketName)
    /\ pc' = "checked"
    /\ UNCHANGED <<entry, input, ctx, opts, bucketName, client, req, doCalls,
                   resp, bodyClosed, region, err, ctxDone, other>>

NextValid == CheckName

SpecValid == InitValid /\ [][NextValid]_vars

----------------------------------------------------------------------------
(* The naming rules, stated on the positions of a name *)

\* the i-th byte of s, 1-based
Byte(s, i) == SubSeq(s, i, i)

DotPositions(s) == {i \in 1..Len(s) : Byte(s, i) = "."}

\* four non-empty all-digit groups separated by three dots
IsDottedQuad(s) ==
    /\ Cardinality(DotPositions(s)) = 3
    /\ \A i \in 1..Len(s) : Byte(s, i) \in Digit \cup {"."}
    /\ 1 \notin DotPositions(s)
    /\ Len(s) \notin DotPositions(s)
    /\ \A i \in DotPositions(s) : i + 1 \notin DotPositions(s)

NamingRules(s) ==
    /\ Len(s) >= 3
    /\ Len(s) <= 63
    /\ Byte(s, 1) \in Lower \cup Digit
    /\ Byte(s, Len(s)) \in Lower \cup Digit
    /\ \A i \in 1..Len(s) : Byte(s, i) \in Lower \cup Digit \cup {".", "-"}
    /\ ~\E i \in 1..(Len(s) - 1) : Byte(s, i) = "." /\ Byte(s, i + 1) = "."
    /\ ~IsDottedQuad(s)

\* the call has derived its bucket name and Do has not returned yet
JustCalled == pc = "inDo" \/ (pc = "returned" /\ ~resp.returned)

\* the bucket names of the model that the naming rules accept
ValidBucketNames == {b \in BucketNames : NamingRules(b)}

\* the four forms of the identifier of a bucket
FourForms == {"plain", "s3uri", "arn", "https-virtual"}

----------------------------------------------------------------------------
(* C1: for every valid bucket name b, GetBucketRegion called with b, with  *)
(* "s3://"+b, with "arn:aws:s3:::"+b and with                              *)
(* "https://"+b+".s3.amazonaws.com" passes exactly b to                    *)
(* GetBucketRegionByName, also when b contains ".s3".                      *)
C1_SameNameInAllForms ==
    (JustCalled /\ entry = "GetBucketRegion") =>
        \A b \in ValidBucketNames, f \in FourForms :
            input = Form(f, b) => bucketName = b

(* C2: for every valid bucket name b and every path suffix p that begins   *)
(* with "/", the bucket name GetBucketRegion derives from x+p is the one   *)
(* it derives from x, for each of the four forms x of b.                   *)
C2_PathSuffixIgnored ==
    (JustCalled /\ entry = "GetBucketRegion") =>
        \A b \in ValidBucketNames, f \in FourForms, p \in PathSuffixes \ {""} :
            input = Form(f, b) \o p => bucketName = GetBucketRegion(Form(f, b))

C2_Witness ==
    /\ pc = "inDo"
    /\ entry = "GetBucketRegion"
    /\ input = "arn:aws:s3:::my-bucket/path/to/object"
    /\ bucketName = "my-bucket"

(* C3: isValidBucketName(name) is true exactly when the length of name is  *)
(* between 3 and 63, its first and last byte are a lowercase letter or a   *)
(* digit, every byte is a lowercase letter, a digit, "." or "-", no two    *)
(* "." are adjacent, and name is not four non-empty all-digit groups       *)
(* separated by three dots; "ab", "a..b" and "192.168.1.1" are rejected    *)
(* and "my-bucket" is accepted.                                            *)
C3_ValidIffNamingRules ==
    pc = "checked" =>
        /\ valid <=> NamingRules(bucketName)
        /\ bucketName \in {"ab", "a..b", "192.168.1.1"} => ~valid
        /\ bucketName = "my-bucket" => valid

C3_Witness ==
    /\ pc = "checked"
    /\ bucketName = "192.168.1.1"
    /\ ~valid

----------------------------------------------------------------------------
(* What Do returned, as the claims speak of it *)

GotResponse == pc = "returned" /\ resp.returned /\ ~resp.isErr

GotError == pc = "returned" /\ resp.returned /\ resp.isErr

Sentinels == {ErrInvalidBucketName, ErrBucketNotFound, ErrRegionHeaderNotFound}

\* r is v without its leading and trailing white space
IsTrimOf(r, v) ==
    \E i \in 1..(Len(v) + 1), j \in 0..Len(v) :
        /\ r = SubSeq(v, i, j)
        /\ \A k \in 1..(i - 1) : Byte(v, k) \in Space
        /\ \A k \in (j + 1)..Len(v) : Byte(v, k) \in Space
        /\ r = "" \/ (Byte(r, 1) \notin Space /\ Byte(r, Len(r)) \notin Space)

(* C4: for every entry point and every input whose derived bucket name     *)
(* fails isValidBucketName, the call returns an error that matches         *)
(* ErrInvalidBucketName and an empty region, and Do is never invoked       *)
(* during the call.                                                        *)
C4_InvalidNameNoRequest ==
    (pc \in {"inDo", "returned"} /\ ~isValidBucketName(bucketName))
    => /\ pc = "returned"
       /\ ErrorsIs(err, ErrInvalidBucketName)
       /\ region = ""
       /\ doCalls = 0
       /\ req = NoRequest
       /\ ~resp.returned

C4_Witness ==
    /\ pc = "returned"
    /\ entry = "GetBucketRegionFromHTTPURL"
    /\ input = "https://s3.amazonaws.com/ab/path/to/object"
    /\ bucketName = "ab"
    /\ ErrorsIs(err, ErrInvalidBucketName)
    /\ doCalls = 0

(* C5: whenever the transport returns a response with status 404,          *)
(* GetBucketRegionByName fails with ErrBucketNotFound and an empty region, *)
(* whether or not the response carries an x-amz-bucket-region header.      *)
C5_NotFoundFirst ==
    (GotResponse /\ resp.status = 404)
    => /\ ErrorsIs(err, ErrBucketNotFound)
       /\ region = ""

C5_Witness ==
    /\ GotResponse
    /\ resp.status = 404
    /\ resp.header = <<"us-east-1">>
    /\ err = ErrBucketNotFound
    /\ region = ""

(* C6: whenever the transport returns a non-404 response whose             *)
(* x-amz-bucket-region header is absent, or is empty after trimming the    *)
(* surrounding white space, GetBucketRegionByName fails with               *)
(* ErrRegionHeaderNotFound; it never returns a nil error together with an  *)
(* empty region.                                                           *)
C6_BlankHeaderIsMissing ==
    /\ (GotResponse
          /\ resp.status # 404
          /\ (resp.header = <<>> \/ IsTrimOf("", resp.header[1])))
       => ErrorsIs(err, ErrRegionHeaderNotFound)
    /\ pc = "returned" => ~(err = NilError /\ region = "")

(* C7: for every response status other than 404, 2xx or not, that carries  *)
(* a non-empty x-amz-bucket-region header, GetBucketRegionByName returns a *)
(* nil error and the header value without its surrounding white space.     *)
C7_HeaderDecidesSuccess ==
    (GotResponse
       /\ resp.status # 404
       /\ resp.header # <<>>
       /\ resp.header[1] # "")
    => /\ err = NilError
       /\ IsTrimOf(region, resp.header[1])

C7_Witness ==
    /\ GotResponse
    /\ resp.status = 403
    /\ resp.header = <<" us-west-2\r\n">>
    /\ err = NilError
    /\ region = "us-west-2"

(* C8: for every input that passes validation, in any supported form, the  *)
(* one request handed to the transport has method HEAD and the URL         *)
(* "https://" + derived bucket name + ".s3.amazonaws.com": the scheme is   *)
(* https also for an http:// input, and no region or path of the input is  *)
(* in the request URL.                                                     *)
(* As amended: the region of a virtual-hosted URL and of a path-style URL  *)
(* with a non-empty path, and the path after the bucket name, are not in   *)
(* the request URL; a URL with an empty path whose host has neither ".s3." *)
(* nor ".s3-" is taken whole as the bucket name, its region included.      *)
C8_RequestIsHead ==
    (pc \in {"inDo", "returned"} /\ NamingRules(bucketName) /\ ctx # "nil")
    => /\ req.method = "HEAD"
       /\ req.url = "https://" \o bucketName \o ".s3.amazonaws.com"

\* the request is looked at where it is handed to the transport
C8_NoSchemeNoPath ==
    pc = "inDo"
    => /\ HasPrefix(req.url, "https://")
       /\ ~Contains(SubSeq(req.url, 9, Len(req.url)), "/")

C8_TestedInputs ==
    (pc = "inDo"
       /\ entry \in {"GetBucketRegion", "GetBucketRegionFromHTTPURL"}
       /\ input \in {"http://my-bucket.s3.amazonaws.com/path/to/object",
                     "https://my-bucket.s3.us-west-2.amazonaws.com/path/to/object",
                     "https://s3.us-west-2.amazonaws.com/my-bucket/path/to/object"})
    => req.url = "https://my-bucket.s3.amazonaws.com"

\* the forms whose host names a region
RegionForms == {"virtual-region", "virtual-dash-region", "path-style-region"}

C8_CanonicalHeadRequest ==
    /\ C8_RequestIsHead
    /\ C8_NoSchemeNoPath
    /\ C8_TestedInputs
    /\ pc = "inDo"
       => \A b \in BucketNames, f \in RegionForms, p \in PathSuffixes :
              (input = Form(f, b) \o p
                 /\ (f = "path-style-region" => b \o p # ""))
              => ~Contains(req.url, "us-west-2")

\* C8 as it was stated: no region of the input is in the request URL
C8_Original ==
    /\ C8_RequestIsHead
    /\ C8_NoSchemeNoPath
    /\ C8_TestedInputs
    /\ (pc = "inDo" /\ Contains(input, "us-west-2"))
       => ~Contains(req.url, "us-west-2")

C8_Witness ==
    /\ pc = "inDo"
    /\ entry = "GetBucketRegion"
    /\ input = "http://my-bucket.s3.amazonaws.com/path/to/object"
    /\ req.method = "HEAD"
    /\ req.url = "https://my-bucket.s3.amazonaws.com"

(* C9: in a resolution call Do is invoked at most once: exactly once when  *)
(* the derived bucket name is valid and the request is built, and not at   *)
(* all otherwise; no outcome of that request causes a second request.      *)
C9_AtMostOneRequest ==
    /\ doCalls \in {0, 1}
    /\ pc \in {"inDo", "returned"}
       => doCalls = IF NamingRules(bucketName) /\ ctx # "nil" THEN 1 ELSE 0
    /\ (pc = "returned" /\ resp.returned) => doCalls = 1

C9_Witness ==
    /\ GotError
    /\ resp.err = <<"Head: context deadline exceeded", "context deadline exceeded">>
    /\ doCalls = 1

(* C10: whenever Do returns a non-nil error e, GetBucketRegionByName       *)
(* returns an empty region and an error whose Unwrap chain contains e, and *)
(* that error matches none of ErrInvalidBucketName, ErrBucketNotFound and  *)
(* ErrRegionHeaderNotFound unless e itself does.                           *)
C10_TransportErrorWrapped ==
    GotError
    => /\ region = ""
       /\ err # NilError
       /\ err # resp.err
       /\ ErrorsIs(err, resp.err)
       /\ \A s \in Sentinels : ErrorsIs(err, s) => ErrorsIs(resp.err, s)

C10_Witness ==
    /\ GotError
    /\ resp.err = <<"Head: context canceled", "context canceled">>
    /\ ErrorsIs(err, <<"context canceled">>)
    /\ ~\E s \in Sentinels : ErrorsIs(err, s)

----------------------------------------------------------------------------
(* C11: the request handed to Do carries the caller's context, and once    *)
(* the context is cancelled or past its deadline while Do runs, the call   *)
(* returns: with "failed to perform HEAD request" wrapping the context's   *)
(* error, and with no further request.                                     *)
C11_ContextEndsCall ==
    /\ [](pc = "inDo" => req.ctx = ctx)
    /\ \A kind \in ContextErrors :
           (pc = "inDo" /\ ctxDone = kind)
               ~> (/\ pc = "returned"
                   /\ ctxDone = kind
                   /\ region = ""
                   /\ doCalls = 1
                   /\ err[1] = "failed to perform HEAD request"
                   /\ ErrorsIs(err, <<kind>>))

C11_Witness ==
    /\ pc = "returned"
    /\ ctxDone = "context deadline exceeded"
    /\ ErrorsIs(err, <<"context deadline exceeded">>)
    /\ resp.returned /\ resp.isErr

----------------------------------------------------------------------------
(* C12: every error an entry point returns is an *Error built by newError: *)
(* it names an entry point as the operation, carries the caller's input or *)
(* the derived bucket name, and wraps a cause.                             *)
C12_ErrorsAnnotated ==
    (pc = "returned" /\ err # NilError) =>
        /\ Len(err) >= 2
        /\ \E op \in EntryPoints, in \in {input, bucketName} :
               err = newError(op, bucketName, in, Tail(err))

----------------------------------------------------------------------------
(* C13: the request of a call is handed to the client of the call's last   *)
(* WithHTTPClient option and to no other, and to http.DefaultClient when   *)
(* the call has no option, whatever the options of the calls before it.    *)
C13_LastClientOption ==
    (pc = "inDo" \/ (pc = "returned" /\ resp.returned)) =>
        /\ doCalls = 1
        /\ opts = <<>> => client = "http.DefaultClient"
        /\ opts # <<>> => client = opts[Len(opts)] /\ client # "http.DefaultClient"

C13_Witness ==
    /\ pc = "returned"
    /\ resp.returned
    /\ opts = <<"clientA", "clientB">>
    /\ client = "clientB"
    /\ doCalls = 1

----------------------------------------------------------------------------
----------------------------------------------------------------------------
(* C15: no call panics, whatever the input and whatever the client given   *)
(* to WithHTTPClient is and returns.                                       *)
C15_NoPanic == pc # "panicked"

----------------------------------------------------------------------------
\* s begins with prefix
StartsWith(s, prefix) ==
    Len(s) >= Len(prefix) /\ SubSeq(s, 1, Len(prefix)) = prefix

\* s up to its first "/", all of s when it has none
UpToFirstSlash(s) ==
    IF \E i \in 1..Len(s) : SubSeq(s, i, i) = "/"
    THEN LET i == CHOOSE i \in 1..Len(s) :
                      /\ SubSeq(s, i, i) = "/"
                      /\ \A j \in 1..(i - 1) : SubSeq(s, j, j) # "/"
         IN  SubSeq(s, 1, i - 1)
    ELSE s

(* C16: GetBucketRegion passes on the name of the ARN form when the input  *)
(* begins "arn:aws:s3:::", else of the URI form when it begins "s3://",    *)
(* else of the URL form when it begins "http://" or "https://", else the   *)
(* input up to its first "/".  The match is case-sensitive: "S3://"+b and  *)
(* "HTTPS://"+b+".s3.amazonaws.com" are taken as plain names, "S3:" and    *)
(* "HTTPS:", and fail with ErrInvalidBucketName without a request.         *)
C16_ClassifiedByPrefix ==
    (JustCalled /\ entry = "GetBucketRegion") =>
        /\ bucketName =
               IF StartsWith(input, "arn:aws:s3:::")
               THEN GetBucketRegionFromARN(input)
               ELSE IF StartsWith(input, "s3://")
               THEN GetBucketRegionFromS3URI(input)
               ELSE IF StartsWith(input, "http://") \/ StartsWith(input, "https://")
               THEN GetBucketRegionFromHTTPURL(input)
               ELSE UpToFirstSlash(input)
        /\ (StartsWith(input, "S3://") \/ StartsWith(input, "HTTPS://")) =>
               /\ bucketName \in {"S3:", "HTTPS:"}
               /\ pc = "returned"
               /\ ErrorsIs(err, ErrInvalidBucketName)
               /\ doCalls = 0
               /\ req = NoRequest

C16_Witness ==
    /\ pc = "returned"
    /\ entry = "GetBucketRegion"
    /\ input = "HTTPS://my-bucket.s3.amazonaws.com"
    /\ bucketName = "HTTPS:"
    /\ ErrorsIs(err, ErrInvalidBucketName)
    /\ doCalls = 0

----------------------------------------------------------------------------
\* the entry points that take a URL
URLEntries == {"GetBucketRegion", "GetBucketRegionFromHTTPURL"}

\* sub occurs in s
Occurs(sub, s) ==
    \E i \in 1..(Len(s) - Len(sub) + 1) : SubSeq(s, i, i + Len(sub) - 1) = sub

\* the host contains ".s3." or ".s3-"
VirtualHost(host) == Occurs(".s3.", host) \/ Occurs(".s3-", host)

\* the part of host before its first ".s3"
BeforeFirstDotS3(host) ==
    LET i == CHOOSE i \in 1..Len(host) :
                 /\ SubSeq(host, i, i + 2) = ".s3"
                 /\ \A j \in 1..(i - 1) : SubSeq(host, j, j + 2) # ".s3"
    IN  SubSeq(host, 1, i - 1)

\* the hosts of the model's URLs for name b, by form
HostOf(f, b) ==
    CASE f = "https-virtual" -> b \o ".s3.amazonaws.com"
      [] f = "http-virtual" -> b \o ".s3.amazonaws.com"
      [] f = "virtual-region" -> b \o ".s3.us-west-2.amazonaws.com"
      [] f = "virtual-dash-region" -> b \o ".s3-us-west-2.amazonaws.com"
      [] f = "host-only" -> b

HostForms == {"https-virtual", "http-virtual", "virtual-region",
              "virtual-dash-region", "host-only"}

\* the model's URLs whose host contains ".s3." or ".s3-", each with the part
\* of its host before the first ".s3"
VirtualHostCases ==
    UNION {{<<Form(f, b) \o p, BeforeFirstDotS3(HostOf(f, b))>> :
                b \in {n \in BucketNames : VirtualHost(HostOf(f, n))},
                p \in PathSuffixes} : f \in HostForms}

----------------------------------------------------------------------------
PathForms == {"path-style", "path-style-region"}

\* the model's URLs with the host of S3 and a path that is not empty, each with
\* the first segment of its path
PathStyleCases ==
    {c \in {<<Form(f, b) \o p, b, b \o p>> :
                f \in PathForms, b \in BucketNames, p \in PathSuffixes} :
        c[3] # ""}

(* C18: for a URL whose host contains neither ".s3." nor ".s3-" and whose  *)
(* path is not empty, the name passed on is the path up to its first "/":  *)
(* b for "https://s3.us-west-2.amazonaws.com/"+b+"/path/to/object", and    *)
(* the empty name when the path begins with "/", which fails with          *)
(* ErrInvalidBucketName without a request.                                 *)
C18_FirstPathSegment ==
    (JustCalled /\ entry \in URLEntries) =>
        \A c \in PathStyleCases :
            input = c[1] =>
                /\ bucketName = c[2]
                /\ c[2] = "" => /\ pc = "returned"
                                /\ ErrorsIs(err, ErrInvalidBucketName)
                                /\ doCalls = 0

C18_Witness ==
    /\ pc = "inDo"
    /\ entry = "GetBucketRegion"
    /\ input = "https://s3.us-west-2.amazonaws.com/my-bucket/path/to/object"
    /\ bucketName = "my-bucket"

\* a path that begins with "/" has been given and has derived the empty name
C18_WitnessEmpty ==
    /\ pc = "returned"
    /\ entry = "GetBucketRegionFromHTTPURL"
    /\ input = "https://s3.amazonaws.com///x"
    /\ bucketName = ""
    /\ ErrorsIs(err, ErrInvalidBucketName)

----------------------------------------------------------------------------
\* the model's URLs with an empty path whose host contains neither ".s3." nor
\* ".s3-": the URL, its host, and whether the host is a valid bucket name
HostOnlyCases ==
    {<<Form("host-only", b) \o p, b, NamingRules(b)>> :
        b \in {n \in BucketNames : ~VirtualHost(n)}, p \in {"", "/"}}

(* C19: for a URL with an empty path whose host contains neither ".s3."    *)
(* nor ".s3-", the host is the name passed on, and it is handled as any    *)
(* name is: a host that is not a valid bucket name fails with              *)
(* ErrInvalidBucketName without a request; for a host that is one, one     *)
(* request goes to "https://"+host+".s3.amazonaws.com", and an answer      *)
(* other than 404 that carries the header makes the call succeed.          *)
C19_HostIsTheName ==
    (entry \in URLEntries /\ pc \in {"inDo", "returned"}) =>
        \A c \in HostOnlyCases :
            input = c[1] =>
                /\ bucketName = c[2]
                /\ ~c[3] => /\ pc = "returned"
                            /\ ErrorsIs(err, ErrInvalidBucketName)
                            /\ doCalls = 0
                /\ (c[3] /\ ctx # "nil") =>
                       /\ doCalls = 1
                       /\ req.url = "https://" \o c[2] \o ".s3.amazonaws.com"
                /\ (/\ GotResponse
                    /\ resp.status # 404
                    /\ resp.header # <<>>
                    /\ resp.header[1] # "") => err = NilError

(* C19 as the claim has it: such a call never succeeds, whatever the       *)
(* transport returns.                                                      *)
C19_Original ==
    (entry \in URLEntries /\ pc = "returned") =>
        \A c \in HostOnlyCases :
            input = c[1] => bucketName = c[2] /\ err # NilError

C19_Witness ==
    /\ pc = "returned"
    /\ entry = "GetBucketRegion"
    /\ input = "https://s3.amazonaws.com/"
    /\ bucketName = "s3.amazonaws.com"
    /\ req.url = "https://s3.amazonaws.com.s3.amazonaws.com"
    /\ err = NilError
    /\ region = "us-east-1"

----------------------------------------------------------------------------
\* the model's URLs with two schemes, "https://http://"+b+".s3.amazonaws.com"
\* and a path, for the valid names b
StackedCases ==
    {<<Form("stacked-scheme", b) \o p, b>> :
        b \in ValidBucketNames, p \in PathSuffixes}

(* C20: GetBucketRegionFromHTTPURL strips one scheme: of the input         *)
(* "https://http://"+b+".s3.amazonaws.com" the host is "http:", the first  *)
(* segment of the path is empty, and the call fails with                   *)
(* ErrInvalidBucketName without a request for bucket b.                    *)
C20_OneSchemeStripped ==
    (JustCalled /\ entry \in URLEntries) =>
        \A c \in StackedCases :
            input = c[1] =>
                /\ bucketName # c[2]
                /\ pc = "returned"
                /\ ErrorsIs(err, ErrInvalidBucketName)
                /\ doCalls = 0

----------------------------------------------------------------------------
(* C21: when a call returns after Do handed back a response, with a nil    *)
(* error or with an error, the body of the response has been closed once.  *)
C21_BodyClosedOnce ==
    (pc = "returned" /\ resp.returned /\ "status" \in DOMAIN resp) =>
        bodyClosed = 1

----------------------------------------------------------------------------
\* The kinds of a returned error, each by the path that builds it
IsInvalidIdentifier ==
    /\ ~resp.returned /\ doCalls = 0
    /\ err = <<"invalid S3 bucket name: " \o bucketName, "invalid S3 bucket name">>

IsRequestFailure ==
    /\ ~resp.returned /\ doCalls = 0
    /\ Len(err) >= 2
    /\ err[1] = "failed to create request"

IsTransportFailure ==
    /\ resp.returned /\ resp.isErr
    /\ err = <<"failed to perform HEAD request">> \o resp.err

IsBucketNotFound ==
    /\ resp.returned /\ ~resp.isErr
    /\ err = <<"aws s3 bucket not found">>

IsRegionHeaderMissing ==
    /\ resp.returned /\ ~resp.isErr
    /\ err = <<"x-amz-bucket-region header not found in response">>

\* how many of the four kinds of the error table the returned error is of
FourKindsCount ==
    Cardinality({k \in {"InvalidIdentifier", "TransportFailure",
                        "BucketNotFound", "RegionHeaderMissing"} :
        \/ k = "InvalidIdentifier" /\ IsInvalidIdentifier
        \/ k = "TransportFailure" /\ IsTransportFailure
        \/ k = "BucketNotFound" /\ IsBucketNotFound
        \/ k = "RegionHeaderMissing" /\ IsRegionHeaderMissing})

(* C22: a call returns either an error with the empty region or a nil      *)
(* error, and a returned error is of exactly one of five kinds: the four   *)
(* of the error table, or the failure to build the request ("failed to     *)
(* create request" wrapping the cause, as for a nil context), which is of  *)
(* none of the four and matches none of the three sentinels.               *)
C22_FiveKinds ==
    (pc = "returned" /\ err # NilError) =>
        /\ region = ""
        /\ FourKindsCount + (IF IsRequestFailure THEN 1 ELSE 0) = 1
        /\ IsRequestFailure =>
               /\ ctx = "nil"
               /\ \A sentinel \in Sentinels : ~ErrorsIs(err, sentinel)

(* C22 as the claim has it: every returned error is of exactly one of the  *)
(* four kinds.                                                             *)
C22_Original ==
    (pc = "returned" /\ err # NilError) =>
        /\ region = ""
        /\ FourKindsCount = 1

C22_Witness ==
    /\ pc = "returned"
    /\ ctx = "nil"
    /\ valid
    /\ err = <<"failed to create request", "net/http: nil Context">>
    /\ region = ""
    /\ doCalls = 0

====
